---- MODULE Spec2Model ----
(***************************************************************************)
(* A model of the device command protocol layer of sr.robot: the motor     *)
(* board (motor.py), the Ruggeduino I/O board (ruggeduino.py) and the      *)
(* power board's output rails (power.py).                                  *)
(*                                                                         *)
(* Threads call the boards' operations; every statement that touches       *)
(* shared state (a lock, the serial port, a cached attribute) is one step. *)
(* A serial port is modelled by its open flag and by the trace of writes   *)
(* and reads made on it; what a read returns is chosen by the environment. *)
(* A byte string is a sequence of one-character strings, a motor board     *)
(* byte is its ordinal.                                                    *)
(***************************************************************************)
EXTENDS Integers, Sequences, FiniteSets, TLC

\* ------------------------------------------------------------------ bounds

\* Number of threads calling into one board.
NThreads == 2

\* Calls made on one board, over all threads.
MaxCalls == 2

\* Calls made on the Ruggeduino when one thread alone uses it.
MaxSeqCalls == 1

\* How far beyond PWM_MAX a requested power may lie.
Over == 50

\* Highest pin number used on the Ruggeduino.
MaxPin == 1

\* Rail indices tried lie in -Beyond .. 5 + Beyond.
Beyond == 2

\* Reads that time out or return a fragment, on one board, while several
\* threads use it.
MaxBadReads == 2

\* Constructions and calls, over both serial boards, when one thread uses
\* the two.
MaxGuardCalls == 2

\* There, a board that answers an exchange at all does so in one of the
\* first MaxLateAnswer rounds.
MaxLateAnswer == 2

Threads == 1 .. NThreads

\* ------------------------------------------------------ motor.py constants

CMD_RESET == 0

CMD_VERSION == 1

CMD_SPEED0 == 2

CMD_SPEED1 == 3

CMD_BOOTLOADER == 4

SPEED_BRAKE == 2

PWM_MAX == 100

EXPECTED_FW_VER == <<"M", "C", "V", "4", "B", ":", "3", "\n">>

MAGIC == <<"E", "n", "t", "e", "r", "i", "n", "g", " ", "b", "o", "o", "t",
           "l", "o", "a", "d", "e", "r", "\n">>

\* range(10) in Motor._get_fwver
FWVER_TRIES == 10

\* serial timeouts, in tenths of a second
TIMEOUT_DEFAULT == 1

TIMEOUT_BOOTLOADER == 5

\* -------------------------------------------------------------- byte strings

\* len(r) > 0 and r[-1] == "\n"
WellFormed(r) == Len(r) > 0 /\ r[Len(r)] = "\n"

\* What serial.readline() may return on the motor board: nothing (timeout),
\* an unterminated fragment, a bare newline, the expected version, another
\* version line.
MotorLines ==
    { <<>>,
      <<"M", "C">>,
      <<"\n">>,
      EXPECTED_FW_VER,
      <<"M", "C", "V", "4", "B", ":", "4", "\n">> }

\* What serial.read(len(MAGIC)) may return.
BootReplies == { <<>>, MAGIC }

\* ------------------------------------------------------------- motor state

VARIABLES
    mPhase,     \* "none" | "init" | "ready" | "failed": Motor.__init__'s progress
    mCheck,     \* the check_fwver argument of Motor.__init__
    mOpen,      \* Motor.serial is open
    mTimeout,   \* Motor.serial.timeout
    mLock,      \* lock -> holder (0: free); lock 0 is Motor.lock
    mWire,      \* trace of the writes and reads on Motor.serial
    mCalls,     \* the calls made, in order: mWire's events name them
    mPower,     \* channel -> MotorChannel._power
    mBrake,     \* channel -> MotorChannel._use_brake
    mpc,        \* thread -> its position in the call it is in
    mloc        \* thread -> that call's locals and its outcome

mvars == <<mPhase, mCheck, mOpen, mTimeout, mLock, mWire, mCalls, mPower,
           mBrake, mpc, mloc>>

\* ------------------------------------------------------- Ruggeduino state

VARIABLES
    rPhase,     \* "none" | "init" | "ready" | "failed": Ruggeduino.__init__'s progress
    rOpen,      \* Ruggeduino.serial is open
    rLock,      \* holder of Ruggeduino.lock (0: free)
    rWire,      \* trace of the writes and reads on Ruggeduino.serial
    rCalls,     \* the calls made, in order
    rWarned,    \* "Ruggeduino is not running the SR firmware" was logged
    rpc,        \* thread -> its position in the call it is in
    rloc        \* thread -> that call's locals and its outcome

rvars == <<rPhase, rOpen, rLock, rWire, rCalls, rWarned, rpc, rloc>>

\* ------------------------------------------------------ power board state

VARIABLES
    pTransfers, \* trace of the control transfers made on Power.handle
    pLast       \* the last call on the power board and its outcome

pvars == <<pTransfers, pLast>>

vars == <<mvars, rvars, pvars>>

notMotor == <<rvars, pvars>>

notRugg == <<mvars, pvars>>

notPower == <<mvars, rvars>>

Channels == {0, 1}

\* Motor.lock, and locks 1 and 2 that a channel would own had it one.
Locks == {0, 1, 2}

\* Variant: each channel creates a lock of its own.
ChannelLockOwn(ch) == ch + 1

\* MotorChannel(self.serial, self.lock, n): both channels are handed
\* Motor.lock itself.
ChannelLock(ch) == 0

\* Variant: a lock that excludes nobody.
LockFreeAlways(holder) == TRUE

\* `with self.lock`: threading.Lock is acquired when it is free only.
LockFree(holder) == holder = 0

NoLoc ==
    [op |-> "none", ch |-> 0, arg |-> 0, value |-> 0, x |-> 0, r |-> <<>>,
     err |-> "", id |-> 0, n |-> 0, oldPower |-> 0, oldBrake |-> TRUE,
     warned |-> FALSE, actual |-> <<>>, expected |-> <<>>, acq |-> 0]

\* A write or read on Motor.serial: by thread t, in call id, the n-th of
\* that call, attempt x of the call's retry loop; b is the byte written
\* (-1 for a read); ok tells a read that returned what was awaited from
\* one that did not; a is the number of times the call has taken a lock,
\* held whether the thread holds one now.
MotorEvent(t, k, b, ok) ==
    [t |-> t, k |-> k, b |-> b, id |-> mloc[t].id, n |-> mloc[t].n,
     x |-> mloc[t].x, ok |-> ok, a |-> mloc[t].acq,
     held |-> \E l \in Locks : mLock[l] = t]

\* The reads of a trace that timed out or returned a fragment.
BadReads(wire) ==
    Cardinality({i \in 1 .. Len(wire) : wire[i].k = "r" /\ ~wire[i].ok})

\* Several threads at work: the board fails to answer MaxBadReads times
\* at most.
Answers(wire, r) == WellFormed(r) \/ BadReads(wire) < MaxBadReads

\* The call a thread begins: its locals, and its entry in mCalls.
MotorCall(t, op, ch, arg) ==
    [NoLoc EXCEPT !.op = op, !.ch = ch, !.arg = arg,
                  !.id = Len(mCalls) + 1,
                  !.oldPower = mPower[ch], !.oldBrake = mBrake[ch]]

CanCall(t) ==
    /\ mPhase = "ready"
    /\ mpc[t] = "idle"
    /\ Len(mCalls) < MaxCalls

Log(t, op, ch, arg) ==
    Append(mCalls, [t |-> t, op |-> op, ch |-> ch, arg |-> arg])

\* Variant: the exception leaves the lock as it is.
MotorRaiseHolding(t, err, held) ==
    /\ mloc' = [mloc EXCEPT ![t].err = err]
    /\ mpc' = [mpc EXCEPT ![t] = "idle"]
    /\ mLock' = mLock

\* An exception leaves the call: a `with self.lock` block it passes through
\* releases the lock (held is the lock the thread holds, -1 for none).
MotorRaise(t, err, held) ==
    /\ mloc' = [mloc EXCEPT ![t].err = err]
    /\ mpc' = [mpc EXCEPT ![t] = "idle"]
    /\ mLock' = IF held >= 0 THEN [mLock EXCEPT ![held] = 0] ELSE mLock

\* ----------------------------------------------------- MotorChannel.power

\* chr(speed + 128)
encode_speed(speed) == speed + 128

\* Variant: the requested value is sent as it is.
ClampNone(value) == value

\* if value > PWM_MAX: ... elif value < -PWM_MAX: ...
Clamp(value) ==
    IF value > PWM_MAX THEN PWM_MAX
    ELSE IF value < -PWM_MAX THEN -PWM_MAX
    ELSE value

\* Variant: zero is sent as a speed, brake or no brake.
SpeedByteNoBrake(value, brake) == encode_speed(value)

\* The byte of the second write: reads self.use_brake at that moment.
SpeedByte(value, brake) ==
    IF value = 0 /\ brake THEN SPEED_BRAKE ELSE encode_speed(value)

\* value = int(value); self._power = value; then the clamp.
power_store(t, ch, v) ==
    /\ CanCall(t)
    /\ mloc' = [mloc EXCEPT ![t] = [MotorCall(t, "power", ch, v)
                                      EXCEPT !.value = Clamp(v)]]
    /\ mCalls' = Log(t, "power", ch, v)
    /\ mPower' = [mPower EXCEPT ![ch] = v]
    /\ mpc' = [mpc EXCEPT ![t] = "pw_acq"]
    /\ UNCHANGED <<notMotor, mPhase, mCheck, mOpen, mTimeout, mLock, mWire, mBrake>>

\* with self.lock:
power_acquire(t) ==
    /\ mpc[t] = "pw_acq"
    /\ LockFree(mLock[ChannelLock(mloc[t].ch)])
    /\ mLock' = [mLock EXCEPT ![ChannelLock(mloc[t].ch)] = t]
    /\ mloc' = [mloc EXCEPT ![t].acq = @ + 1]
    /\ mpc' = [mpc EXCEPT ![t] = "pw_cmd"]
    /\ UNCHANGED <<notMotor, mPhase, mCheck, mOpen, mTimeout, mWire, mCalls, mPower,
                   mBrake>>

\* self.serial.write(CMD_SPEED0) or self.serial.write(CMD_SPEED1)
power_write_cmd(t) ==
    /\ mpc[t] = "pw_cmd"
    /\ IF mOpen
       THEN /\ mWire' = Append(mWire,
                   MotorEvent(t, "w", IF mloc[t].ch = 0 THEN CMD_SPEED0
                                      ELSE CMD_SPEED1, TRUE))
            /\ mloc' = [mloc EXCEPT ![t].n = @ + 1]
            /\ mpc' = [mpc EXCEPT ![t] = "pw_byte"]
            /\ UNCHANGED mLock
       ELSE /\ MotorRaise(t, "SerialException", ChannelLock(mloc[t].ch))
            /\ UNCHANGED mWire
    /\ UNCHANGED <<notMotor, mPhase, mCheck, mOpen, mTimeout, mCalls, mPower, mBrake>>

\* self.serial.write(SPEED_BRAKE) or self.serial.write(self._encode_speed(value))
power_write_byte(t) ==
    /\ mpc[t] = "pw_byte"
    /\ IF mOpen
       THEN /\ mWire' = Append(mWire,
                   MotorEvent(t, "w", SpeedByte(mloc[t].value,
                                                mBrake[mloc[t].ch]), TRUE))
            /\ mloc' = [mloc EXCEPT ![t].n = @ + 1]
            /\ mpc' = [mpc EXCEPT ![t] = "pw_rel"]
            /\ UNCHANGED mLock
       ELSE /\ MotorRaise(t, "SerialException", ChannelLock(mloc[t].ch))
            /\ UNCHANGED mWire
    /\ UNCHANGED <<notMotor, mPhase, mCheck, mOpen, mTimeout, mCalls, mPower, mBrake>>

\* the end of the with block
power_release(t) ==
    /\ mpc[t] = "pw_rel"
    /\ mLock' = [mLock EXCEPT ![ChannelLock(mloc[t].ch)] = 0]
    /\ mpc' = [mpc EXCEPT ![t] = "idle"]
    /\ UNCHANGED <<notMotor, mPhase, mCheck, mOpen, mTimeout, mWire, mCalls, mPower,
                   mBrake, mloc>>

\* ------------------------------------------------- MotorChannel.use_brake

\* self._use_brake = value
use_brake_store(t, ch, b) ==
    /\ CanCall(t)
    /\ mloc' = [mloc EXCEPT ![t] = MotorCall(t, "use_brake", ch,
                                             IF b THEN 1 ELSE 0)]
    /\ mCalls' = Log(t, "use_brake", ch, IF b THEN 1 ELSE 0)
    /\ mBrake' = [mBrake EXCEPT ![ch] = b]
    /\ mpc' = [mpc EXCEPT ![t] = "br_chk"]
    /\ UNCHANGED <<notMotor, mPhase, mCheck, mOpen, mTimeout, mLock, mWire, mPower>>

\* if self.power == 0:
use_brake_check(t) ==
    /\ mpc[t] = "br_chk"
    /\ mpc' = [mpc EXCEPT ![t] = IF mPower[mloc[t].ch] = 0 THEN "br_pw"
                                 ELSE "idle"]
    /\ UNCHANGED <<notMotor, mPhase, mCheck, mOpen, mTimeout, mLock, mWire, mCalls,
                   mPower, mBrake, mloc>>

\* self.power = 0: the power setter, entered from the brake setter
use_brake_power(t) ==
    /\ mpc[t] = "br_pw"
    /\ mPower' = [mPower EXCEPT ![mloc[t].ch] = 0]
    /\ mloc' = [mloc EXCEPT ![t].value = Clamp(0)]
    /\ mpc' = [mpc EXCEPT ![t] = "pw_acq"]
    /\ UNCHANGED <<notMotor, mPhase, mCheck, mOpen, mTimeout, mLock, mWire, mCalls,
                   mBrake>>

\* ------------------------------------------------------- Motor._get_fwver

\* Where _get_fwver returns to: Motor.__init__ or the thread's caller.
FwverReturn(t) == IF mloc[t].op = "init" THEN "in_chk" ELSE "idle"

get_fwver_call(t) ==
    /\ CanCall(t)
    /\ mloc' = [mloc EXCEPT ![t] = MotorCall(t, "get_fwver", 0, 0)]
    /\ mCalls' = Log(t, "get_fwver", 0, 0)
    /\ mpc' = [mpc EXCEPT ![t] = "fw_acq"]
    /\ UNCHANGED <<notMotor, mPhase, mCheck, mOpen, mTimeout, mLock, mWire, mPower,
                   mBrake>>

\* with self.lock:
get_fwver_acquire(t) ==
    /\ mpc[t] = "fw_acq"
    /\ LockFree(mLock[0])
    /\ mLock' = [mLock EXCEPT ![0] = t]
    /\ mloc' = [mloc EXCEPT ![t].acq = @ + 1]
    /\ mpc' = [mpc EXCEPT ![t] = "fw_write"]
    /\ UNCHANGED <<notMotor, mPhase, mCheck, mOpen, mTimeout, mWire, mCalls, mPower,
                   mBrake>>

\* An exception that leaves Motor.__init__ leaves no Motor behind.
PhaseAfterRaise(t) == IF mloc[t].op = "init" THEN "failed" ELSE mPhase

\* self.serial.write(CMD_VERSION)
get_fwver_write(t) ==
    /\ mpc[t] = "fw_write"
    /\ IF mOpen
       THEN /\ mWire' = Append(mWire, MotorEvent(t, "w", CMD_VERSION, TRUE))
            /\ mloc' = [mloc EXCEPT ![t].n = @ + 1]
            /\ mpc' = [mpc EXCEPT ![t] = "fw_read"]
            /\ UNCHANGED <<mLock, mPhase>>
       ELSE /\ MotorRaise(t, "SerialException", 0)
            /\ mPhase' = PhaseAfterRaise(t)
            /\ UNCHANGED mWire
    /\ UNCHANGED <<notMotor, mCheck, mOpen, mTimeout, mCalls, mPower, mBrake>>

\* r = self.serial.readline()
get_fwver_readline(t, r) ==
    /\ mpc[t] = "fw_read"
    /\ IF mOpen
       THEN /\ mWire' = Append(mWire, MotorEvent(t, "r", -1, WellFormed(r)))
            /\ mloc' = [mloc EXCEPT ![t].n = @ + 1, ![t].r = r]
            /\ mpc' = [mpc EXCEPT ![t] = "fw_rel"]
            /\ UNCHANGED <<mLock, mPhase>>
       ELSE /\ MotorRaise(t, "SerialException", 0)
            /\ mPhase' = PhaseAfterRaise(t)
            /\ UNCHANGED mWire
    /\ UNCHANGED <<notMotor, mCheck, mOpen, mTimeout, mCalls, mPower, mBrake>>

\* The end of the with block, then the test of r: return it, go round
\* again, or raise FirmwareReadFail after the last round.
get_fwver_release(t) ==
    /\ mpc[t] = "fw_rel"
    /\ mLock' = [mLock EXCEPT ![0] = 0]
    /\ IF WellFormed(mloc[t].r)
       THEN /\ mpc' = [mpc EXCEPT ![t] = FwverReturn(t)]
            /\ UNCHANGED <<mloc, mPhase>>
       ELSE IF mloc[t].x + 1 < FWVER_TRIES
       THEN /\ mpc' = [mpc EXCEPT ![t] = "fw_acq"]
            /\ mloc' = [mloc EXCEPT ![t].x = @ + 1]
            /\ UNCHANGED mPhase
       ELSE /\ mpc' = [mpc EXCEPT ![t] = "idle"]
            /\ mloc' = [mloc EXCEPT ![t].x = @ + 1,
                                    ![t].err = "FirmwareReadFail"]
            /\ mPhase' = PhaseAfterRaise(t)
    /\ UNCHANGED <<notMotor, mCheck, mOpen, mTimeout, mWire, mCalls, mPower, mBrake>>

\* ------------------------------------------------ Motor._jump_to_bootloader

\* self.serial.timeout = 0.5
jump_to_bootloader_call(t) ==
    /\ CanCall(t)
    /\ mloc' = [mloc EXCEPT ![t] = MotorCall(t, "bootloader", 0, 0)]
    /\ mCalls' = Log(t, "bootloader", 0, 0)
    /\ mTimeout' = TIMEOUT_BOOTLOADER
    /\ mpc' = [mpc EXCEPT ![t] = "bl_acq"]
    /\ UNCHANGED <<notMotor, mPhase, mCheck, mOpen, mLock, mWire, mPower, mBrake>>

\* with self.lock:
jump_to_bootloader_acquire(t) ==
    /\ mpc[t] = "bl_acq"
    /\ LockFree(mLock[0])
    /\ mLock' = [mLock EXCEPT ![0] = t]
    /\ mloc' = [mloc EXCEPT ![t].acq = @ + 1]
    /\ mpc' = [mpc EXCEPT ![t] = "bl_write"]
    /\ UNCHANGED <<notMotor, mPhase, mCheck, mOpen, mTimeout, mWire, mCalls, mPower,
                   mBrake>>

\* self.serial.write(CMD_BOOTLOADER)
jump_to_bootloader_write(t) ==
    /\ mpc[t] = "bl_write"
    /\ IF mOpen
       THEN /\ mWire' = Append(mWire, MotorEvent(t, "w", CMD_BOOTLOADER, TRUE))
            /\ mloc' = [mloc EXCEPT ![t].n = @ + 1]
            /\ mpc' = [mpc EXCEPT ![t] = "bl_rel"]
            /\ UNCHANGED mLock
       ELSE /\ MotorRaise(t, "SerialException", 0)
            /\ UNCHANGED mWire
    /\ UNCHANGED <<notMotor, mPhase, mCheck, mOpen, mTimeout, mCalls, mPower, mBrake>>

\* the end of the with block
jump_to_bootloader_release(t) ==
    /\ mpc[t] = "bl_rel"
    /\ mLock' = [mLock EXCEPT ![0] = 0]
    /\ mpc' = [mpc EXCEPT ![t] = "bl_read"]
    /\ UNCHANGED <<notMotor, mPhase, mCheck, mOpen, mTimeout, mWire, mCalls, mPower,
                   mBrake, mloc>>

\* r = self.serial.read(len(MAGIC)); if r != MAGIC: logger.warning(...)
jump_to_bootloader_read(t, r) ==
    /\ mpc[t] = "bl_read"
    /\ IF mOpen
       THEN /\ mWire' = Append(mWire, MotorEvent(t, "r", -1, r = MAGIC))
            /\ mloc' = [mloc EXCEPT ![t].n = @ + 1, ![t].r = r,
                                    ![t].warned = (r # MAGIC)]
            /\ mpc' = [mpc EXCEPT ![t] = "bl_drain"]
            /\ UNCHANGED mLock
       ELSE /\ MotorRaise(t, "SerialException", -1)
            /\ UNCHANGED mWire
    /\ UNCHANGED <<notMotor, mPhase, mCheck, mOpen, mTimeout, mCalls, mPower, mBrake>>

\* self.serial.read()
jump_to_bootloader_drain(t) ==
    /\ mpc[t] = "bl_drain"
    /\ IF mOpen
       THEN /\ mWire' = Append(mWire, MotorEvent(t, "r", -1, TRUE))
            /\ mloc' = [mloc EXCEPT ![t].n = @ + 1]
            /\ mpc' = [mpc EXCEPT ![t] = "idle"]
            /\ UNCHANGED mLock
       ELSE /\ MotorRaise(t, "SerialException", -1)
            /\ UNCHANGED mWire
    /\ UNCHANGED <<notMotor, mPhase, mCheck, mOpen, mTimeout, mCalls, mPower, mBrake>>

\* ------------------------------------------------------------ Motor.close

\* Variant: the port is left as it is.
SerialLeftOpen(open) == open

\* self.serial.close(): the port is closed, whatever it was.
SerialClosed(open) == FALSE

\* Motor.close()
Motor_close(t) ==
    /\ CanCall(t)
    /\ mloc' = [mloc EXCEPT ![t] = MotorCall(t, "close", 0, 0)]
    /\ mCalls' = Log(t, "close", 0, 0)
    /\ mOpen' = SerialClosed(mOpen)
    /\ UNCHANGED <<notMotor, mPhase, mCheck, mTimeout, mLock, mWire, mPower, mBrake,
                   mpc>>

\* --------------------------------------------------------- Motor.__init__

\* Variant: any version is accepted.
FirmwareRejectedNever(check, fw) == FALSE

\* check_fwver and fw != EXPECTED_FW_VER
FirmwareRejected(check, fw) == check /\ fw # EXPECTED_FW_VER

\* self.serial = serial.Serial(...); self.lock = threading.Lock()
Motor_init_open(t, check) ==
    /\ mPhase = "none"
    /\ mpc[t] = "idle"
    /\ mPhase' = "init"
    /\ mCheck' = check
    /\ mOpen' = TRUE
    /\ mTimeout' = TIMEOUT_DEFAULT
    /\ mLock' = [l \in Locks |-> 0]
    /\ mloc' = [mloc EXCEPT ![t] = [NoLoc EXCEPT !.op = "init",
                                                 !.id = Len(mCalls) + 1]]
    /\ mCalls' = Log(t, "init", 0, 0)
    /\ mpc' = [mpc EXCEPT ![t] = "in_acq"]
    /\ UNCHANGED <<notMotor, mWire, mPower, mBrake>>

\* with self.lock:
Motor_init_acquire(t) ==
    /\ mpc[t] = "in_acq"
    /\ LockFree(mLock[0])
    /\ mLock' = [mLock EXCEPT ![0] = t]
    /\ mloc' = [mloc EXCEPT ![t].acq = @ + 1]
    /\ mpc' = [mpc EXCEPT ![t] = "in_reset"]
    /\ UNCHANGED <<notMotor, mPhase, mCheck, mOpen, mTimeout, mWire, mCalls,
                   mPower, mBrake>>

\* self.serial.write(CMD_RESET), and the end of the with block
Motor_init_reset(t) ==
    /\ mpc[t] = "in_reset"
    /\ mWire' = Append(mWire, MotorEvent(t, "w", CMD_RESET, TRUE))
    /\ mloc' = [mloc EXCEPT ![t].n = @ + 1]
    /\ mLock' = [mLock EXCEPT ![0] = 0]
    /\ mpc' = [mpc EXCEPT ![t] = "fw_acq"]
    /\ UNCHANGED <<notMotor, mPhase, mCheck, mOpen, mTimeout, mCalls, mPower,
                   mBrake>>

\* fw = self._get_fwver() has returned: reject the firmware (close, raise
\* IncorrectFirmware) or create the two channels.
Motor_init_check(t) ==
    /\ mpc[t] = "in_chk"
    /\ IF FirmwareRejected(mCheck, mloc[t].r)
       THEN /\ mOpen' = SerialClosed(mOpen)
            /\ mloc' = [mloc EXCEPT ![t].err = "IncorrectFirmware",
                                    ![t].actual = mloc[t].r,
                                    ![t].expected = EXPECTED_FW_VER]
            /\ mPhase' = "failed"
            /\ UNCHANGED <<mPower, mBrake>>
       ELSE /\ mPhase' = "ready"
            /\ mPower' = [ch \in Channels |-> 0]
            /\ mBrake' = [ch \in Channels |-> TRUE]
            /\ UNCHANGED <<mOpen, mloc>>
    /\ mpc' = [mpc EXCEPT ![t] = "idle"]
    /\ UNCHANGED <<notMotor, mCheck, mTimeout, mLock, mWire, mCalls>>

\* ------------------------------------------------------------ motor: steps

\* The powers threads ask for when they run concurrently.
RacePowers == {0, PWM_MAX \div 2, PWM_MAX + Over}

\* The powers one thread asks for: the ends of the range, both sides of
\* each end, zero and its neighbours.
Powers ==
    { -PWM_MAX - Over, -PWM_MAX - 1, -PWM_MAX, 1 - PWM_MAX, -1, 0, 1,
      PWM_MAX - 1, PWM_MAX, PWM_MAX + 1, PWM_MAX + Over }

MotorInitNone ==
    /\ mPhase = "none"
    /\ mCheck = FALSE
    /\ mOpen = FALSE
    /\ mTimeout = TIMEOUT_DEFAULT
    /\ mLock = [l \in Locks |-> 0]
    /\ mWire = <<>>
    /\ mCalls = <<>>
    /\ mPower = [ch \in Channels |-> 0]
    /\ mBrake = [ch \in Channels |-> TRUE]
    /\ mpc = [t \in Threads |-> "idle"]
    /\ mloc = [t \in Threads |-> NoLoc]

\* A Motor whose construction succeeded; mWire and mCalls start here.
MotorInitReady ==
    /\ mPhase = "ready"
    /\ mCheck = TRUE
    /\ mOpen = TRUE
    /\ mTimeout = TIMEOUT_DEFAULT
    /\ mLock = [l \in Locks |-> 0]
    /\ mWire = <<>>
    /\ mCalls = <<>>
    /\ mPower = [ch \in Channels |-> 0]
    /\ mBrake = [ch \in Channels |-> TRUE]
    /\ mpc = [t \in Threads |-> "idle"]
    /\ mloc = [t \in Threads |-> NoLoc]

\* ------------------------------------------------- ruggeduino.py constants

COMMAND_RETRIES == 10

INPUT == "INPUT"

OUTPUT == "OUTPUT"

INPUT_PULLUP == "INPUT_PULLUP"

\* MODES in Ruggeduino.pin_mode
MODES == [m \in {INPUT, OUTPUT, INPUT_PULLUP} |->
            CASE m = INPUT -> "i" [] m = OUTPUT -> "o" [] OTHER -> "p"]

SRDUINO == <<"S", "R", "d", "u", "i", "n", "o">>

\* the divisor and the factor of Ruggeduino.analogue_read
ADC_MAX == 1023

ADC_VOLTS == 5

Letters == <<"a", "b", "c", "d", "e", "f", "g", "h">>

Pins == 0 .. MaxPin

\* chr(ord('a') + pin)
encode_pin(pin) == Letters[pin + 1]

\* s.split(":")[0]: what precedes the first colon, all of s if it has none.
SplitHead(s) ==
    IF \E i \in 1 .. Len(s) : s[i] = ":"
    THEN SubSeq(s, 1, (CHOOSE i \in 1 .. Len(s) :
                         /\ s[i] = ":"
                         /\ \A j \in 1 .. i - 1 : s[j] # ":") - 1)
    ELSE s

\* Variant: any answer passes for the SR firmware.
is_srduino_loose(v) == Len(v) > 0

\* v.split(":")[0] == "SRduino"
is_srduino(v) == SplitHead(v) = SRDUINO

Digits == <<"0", "1", "2", "3", "4", "5", "6", "7", "8", "9">>

IsDigit(c) == \E d \in 1 .. 10 : Digits[d] = c

DigitValue(c) == (CHOOSE d \in 1 .. 10 : Digits[d] = c) - 1

\* The line without the newline that ends it: int() ignores it.
Stripped(s) ==
    IF Len(s) > 0 /\ s[Len(s)] = "\n" THEN SubSeq(s, 1, Len(s) - 1) ELSE s

\* int(response) raises ValueError unless it is given digits.
IsInt(s) ==
    /\ Len(Stripped(s)) > 0
    /\ \A i \in 1 .. Len(Stripped(s)) : IsDigit(Stripped(s)[i])

RECURSIVE DecimalValue(_)
DecimalValue(s) ==
    IF s = <<>> THEN 0
    ELSE 10 * DecimalValue(SubSeq(s, 1, Len(s) - 1)) + DigitValue(s[Len(s)])

\* What serial.readline() may return on the Ruggeduino: nothing (timeout),
\* an unterminated fragment, a level, a reading, the SR firmware's version,
\* another firmware's.
RuggLines ==
    { <<>>,
      <<"h">>,
      <<"h", "\n">>,
      <<"5", "1", "2", "\n">>,
      <<"S", "R", "d", "u", "i", "n", "o", ":", "1", "\n">>,
      <<"G", "r", "b", "l", "\n">> }

\* ------------------------------------------------------ Ruggeduino: steps

NoRLoc ==
    [op |-> "none", cmd |-> <<>>, x |-> 0, r |-> <<>>, err |-> "",
     errcmd |-> <<>>, id |-> 0, returned |-> FALSE, retLine |-> <<>>,
     retBool |-> FALSE, retNum |-> -1, acq |-> 0]

\* A write or read on Ruggeduino.serial: by thread t, in call id, in round
\* x of command's loop; b is what was written (<<>> for a read); a is the
\* number of times the call has taken the lock, held whether the thread
\* holds it now.
RuggEvent(t, k, b, ok) ==
    [t |-> t, k |-> k, b |-> b, id |-> rloc[t].id, x |-> rloc[t].x,
     ok |-> ok, a |-> rloc[t].acq, held |-> rLock = t]

RuggCanCall(t) ==
    /\ rPhase = "ready"
    /\ rpc[t] = "idle"
    /\ Len(rCalls) < MaxCalls

\* A thread enters a public operation that will send cmd.
RuggBegin(t, op, cmd) ==
    /\ rloc' = [rloc EXCEPT ![t] = [NoRLoc EXCEPT !.op = op, !.cmd = cmd,
                                                  !.id = Len(rCalls) + 1]]
    /\ rCalls' = Append(rCalls, [t |-> t, op |-> op, cmd |-> cmd])
    /\ rpc' = [rpc EXCEPT ![t] = "acq"]

\* An exception leaves the call, through the `with self.lock` block when
\* the thread is inside it.
RuggRaise(t, err) ==
    /\ rloc' = [rloc EXCEPT ![t].err = err, ![t].errcmd = rloc[t].cmd]
    /\ rpc' = [rpc EXCEPT ![t] = "idle"]
    /\ rLock' = IF rLock = t THEN 0 ELSE rLock
    /\ rPhase' = IF rloc[t].op = "init" THEN "failed" ELSE rPhase

\* RuggeduinoCmdBase.__init__, then Ruggeduino.__init__ enters _is_srduino
Ruggeduino_init(t) ==
    /\ rPhase = "none"
    /\ rpc[t] = "idle"
    /\ rPhase' = "init"
    /\ rOpen' = TRUE
    /\ rLock' = 0
    /\ RuggBegin(t, "init", <<"v">>)
    /\ UNCHANGED <<notRugg, rWire, rWarned>>

pin_mode(t, pin, mode) ==
    /\ RuggCanCall(t)
    /\ RuggBegin(t, "pin_mode", <<MODES[mode], encode_pin(pin)>>)
    /\ UNCHANGED <<notRugg, rPhase, rOpen, rLock, rWire, rWarned>>

digital_read(t, pin) ==
    /\ RuggCanCall(t)
    /\ RuggBegin(t, "digital_read", <<"r", encode_pin(pin)>>)
    /\ UNCHANGED <<notRugg, rPhase, rOpen, rLock, rWire, rWarned>>

digital_write(t, pin, level) ==
    /\ RuggCanCall(t)
    /\ RuggBegin(t, "digital_write",
                 <<IF level THEN "h" ELSE "l", encode_pin(pin)>>)
    /\ UNCHANGED <<notRugg, rPhase, rOpen, rLock, rWire, rWarned>>

analogue_read(t, pin) ==
    /\ RuggCanCall(t)
    /\ RuggBegin(t, "analogue_read", <<"a", encode_pin(pin)>>)
    /\ UNCHANGED <<notRugg, rPhase, rOpen, rLock, rWire, rWarned>>

firmware_version_read(t) ==
    /\ RuggCanCall(t)
    /\ RuggBegin(t, "firmware_version_read", <<"v">>)
    /\ UNCHANGED <<notRugg, rPhase, rOpen, rLock, rWire, rWarned>>

\* with self.lock:
lock_acquire(t) ==
    /\ rpc[t] = "acq"
    /\ LockFree(rLock)
    /\ rLock' = t
    /\ rloc' = [rloc EXCEPT ![t].acq = @ + 1]
    /\ rpc' = [rpc EXCEPT ![t] = "cmd_assert"]
    /\ UNCHANGED <<notRugg, rPhase, rOpen, rWire, rCalls, rWarned>>

\* assert self.lock.locked(); command = bytes(data)
command_assert(t) ==
    /\ rpc[t] = "cmd_assert"
    /\ IF rLock # 0
       THEN /\ rpc' = [rpc EXCEPT ![t] = "cmd_write"]
            /\ UNCHANGED <<rloc, rLock, rPhase>>
       ELSE RuggRaise(t, "AssertionError")
    /\ UNCHANGED <<notRugg, rOpen, rWire, rCalls, rWarned>>

\* self.serial.write(command)
command_write(t) ==
    /\ rpc[t] = "cmd_write"
    /\ IF rOpen
       THEN /\ rWire' = Append(rWire, RuggEvent(t, "w", rloc[t].cmd, TRUE))
            /\ rpc' = [rpc EXCEPT ![t] = "cmd_read"]
            /\ UNCHANGED <<rloc, rLock, rPhase>>
       ELSE /\ RuggRaise(t, "SerialException")
            /\ UNCHANGED rWire
    /\ UNCHANGED <<notRugg, rOpen, rCalls, rWarned>>

\* Variant: one round more.
RetriesOneMore == COMMAND_RETRIES + 1

\* range(COMMAND_RETRIES): the rounds command's loop makes at most.
Retries == COMMAND_RETRIES

\* res = self.serial.readline(), then the test of res: return it, go round
\* again, or raise after the last round.
command_readline(t, res) ==
    /\ rpc[t] = "cmd_read"
    /\ IF ~rOpen
       THEN /\ RuggRaise(t, "SerialException")
            /\ UNCHANGED rWire
       ELSE /\ rWire' = Append(rWire, RuggEvent(t, "r", <<>>,
                                                WellFormed(res)))
            /\ IF WellFormed(res)
               THEN /\ rloc' = [rloc EXCEPT ![t].r = res]
                    /\ rpc' = [rpc EXCEPT ![t] = "rel"]
                    /\ UNCHANGED <<rLock, rPhase>>
               ELSE IF rloc[t].x + 1 < Retries
               THEN /\ rloc' = [rloc EXCEPT ![t].r = res, ![t].x = @ + 1]
                    /\ rpc' = [rpc EXCEPT ![t] = "cmd_write"]
                    /\ UNCHANGED <<rLock, rPhase>>
               ELSE /\ rloc' = [rloc EXCEPT ![t].r = res, ![t].x = @ + 1,
                                            ![t].err = "Exception",
                                            ![t].errcmd = rloc[t].cmd]
                    /\ rpc' = [rpc EXCEPT ![t] = "idle"]
                    /\ rLock' = IF rLock = t THEN 0 ELSE rLock
                    /\ rPhase' = IF rloc[t].op = "init" THEN "failed"
                                 ELSE rPhase
    /\ UNCHANGED <<notRugg, rOpen, rCalls, rWarned>>

\* command has returned: the end of the with block and what the operation
\* makes of the response.
lock_release(t) ==
    /\ rpc[t] = "rel"
    /\ rloc[t].op # "command"
    /\ rLock' = 0
    /\ rpc' = [rpc EXCEPT ![t] = "idle"]
    /\ LET op == rloc[t].op
           r  == rloc[t].r
       IN  /\ rloc' =
                CASE op = "digital_read" ->
                       [rloc EXCEPT ![t].returned = TRUE,
                                    ![t].retBool = (r[1] = "h")]
                  [] op = "analogue_read" ->
                       IF IsInt(r)
                       THEN [rloc EXCEPT ![t].returned = TRUE,
                                ![t].retNum =
                                    DecimalValue(Stripped(r)) * ADC_VOLTS]
                       ELSE [rloc EXCEPT ![t].err = "ValueError"]
                  [] op \in {"firmware_version_read", "init"} ->
                       [rloc EXCEPT ![t].returned = TRUE, ![t].retLine = r]
                  [] OTHER -> [rloc EXCEPT ![t].returned = TRUE]
           /\ rWarned' = IF op = "init" THEN ~is_srduino(r) ELSE rWarned
           /\ rPhase' = IF op = "init" THEN "ready" ELSE rPhase
    /\ UNCHANGED <<notRugg, rOpen, rWire, rCalls>>

\* command(data) called from outside the class, without `with self.lock`
command_call(t, data) ==
    /\ RuggCanCall(t)
    /\ rloc' = [rloc EXCEPT ![t] = [NoRLoc EXCEPT !.op = "command",
                                                  !.cmd = data,
                                                  !.id = Len(rCalls) + 1]]
    /\ rCalls' = Append(rCalls, [t |-> t, op |-> "command", cmd |-> data])
    /\ rpc' = [rpc EXCEPT ![t] = "cmd_assert"]
    /\ UNCHANGED <<notRugg, rPhase, rOpen, rLock, rWire, rWarned>>

\* return res, to a caller outside the class
command_return(t) ==
    /\ rpc[t] = "rel"
    /\ rloc[t].op = "command"
    /\ rloc' = [rloc EXCEPT ![t].returned = TRUE, ![t].retLine = rloc[t].r]
    /\ rpc' = [rpc EXCEPT ![t] = "idle"]
    /\ UNCHANGED <<notRugg, rPhase, rOpen, rLock, rWire, rCalls, rWarned>>

\* self.serial.close()
Ruggeduino_close(t) ==
    /\ RuggCanCall(t)
    /\ rloc' = [rloc EXCEPT ![t] = [NoRLoc EXCEPT !.op = "close",
                                                  !.id = Len(rCalls) + 1]]
    /\ rCalls' = Append(rCalls, [t |-> t, op |-> "close", cmd |-> <<>>])
    /\ rOpen' = FALSE
    /\ UNCHANGED <<notRugg, rPhase, rLock, rWire, rWarned, rpc>>

RuggInitNone ==
    /\ rPhase = "none"
    /\ rOpen = FALSE
    /\ rLock = 0
    /\ rWire = <<>>
    /\ rCalls = <<>>
    /\ rWarned = FALSE
    /\ rpc = [t \in Threads |-> "idle"]
    /\ rloc = [t \in Threads |-> NoRLoc]

\* A Ruggeduino whose construction succeeded; rWire and rCalls start here.
RuggInitReady ==
    /\ rPhase = "ready"
    /\ rOpen = TRUE
    /\ rLock = 0
    /\ rWire = <<>>
    /\ rCalls = <<>>
    /\ rWarned = FALSE
    /\ rpc = [t \in Threads |-> "idle"]
    /\ rloc = [t \in Threads |-> NoRLoc]

\* ------------------------------------------------------ power.py: Outputs

\* Transfers recorded on Power.handle.
MaxTransfers == 2

CMD_WRITE_output0 == 0

\* the request of every control transfer
REQUEST == 64

\* the last rail: `index > 5`
LAST_RAIL == 5

\* Python values given as the value of a rail: None, booleans, integers,
\* strings (n is the length).
PyValues ==
    { [ty |-> "none", n |-> 0],
      [ty |-> "bool", n |-> 0], [ty |-> "bool", n |-> 1],
      [ty |-> "int", n |-> 0], [ty |-> "int", n |-> 1],
      [ty |-> "int", n |-> 2], [ty |-> "int", n |-> -1],
      [ty |-> "str", n |-> 0], [ty |-> "str", n |-> 2] }

\* Python's truth of a value.
Truth(v) == v.ty # "none" /\ v.n # 0

\* if value: val = True else: val = False; a bool is sent as 1 or 0.
Coerce(v) == IF Truth(v) THEN 1 ELSE 0

\* Variant: the upper test is off by one.
OutOfRangeLoose(index) == index > LAST_RAIL + 1 \/ index < 0

\* if index > 5 or index < 0:
OutOfRange(index) == index > LAST_RAIL \/ index < 0

\* cmd = Power.CMD_WRITE_output0 + index
OutputCmd(index) == CMD_WRITE_output0 + index

RailIndices == -Beyond .. LAST_RAIL + Beyond

\* Python values given to beep: None, an integer, a string, a sequence of
\* (duration, note or frequency) pairs.
PyNone == [ty |-> "none", n |-> 0, s |-> "", items |-> <<>>]

PyInt(n) == [ty |-> "int", n |-> n, s |-> "", items |-> <<>>]

PyStr(s) == [ty |-> "str", n |-> 0, s |-> s, items |-> <<>>]

PyList(items) == [ty |-> "list", n |-> 0, s |-> "", items |-> items]

\* A call on the power board: its arguments, the transfers made before it,
\* the exception it raised ("" for none), what it returned (-1 for nothing).
NoCall ==
    [op |-> "none", index |-> 0, value |-> [ty |-> "none", n |-> 0],
     err |-> "", before |-> 0, ret |-> -1, duration |-> PyNone,
     note |-> PyNone, frequency |-> PyNone]

\* Outputs.__setitem__(index, value)
Outputs_setitem(index, value) ==
    /\ Len(pTransfers) < MaxTransfers
    /\ IF OutOfRange(index)
       THEN /\ pLast' = [NoCall EXCEPT !.op = "setitem", !.index = index,
                                       !.value = value, !.err = "Exception",
                                       !.before = Len(pTransfers)]
            /\ UNCHANGED pTransfers
       ELSE /\ pTransfers' = Append(pTransfers,
                   [dir |-> "write", request_type |-> 0,
                    request |-> REQUEST, value |-> Coerce(value),
                    index |-> OutputCmd(index), data |-> 0])
            /\ pLast' = [NoCall EXCEPT !.op = "setitem", !.index = index,
                                       !.value = value,
                                       !.before = Len(pTransfers)]
    /\ UNCHANGED notPower

\* outputs[index]: class Outputs defines __setitem__ and nothing to read an
\* item with, so Python raises TypeError for the subscription.
Outputs_getitem(index) ==
    /\ Len(pTransfers) < MaxTransfers
    /\ pLast' = [NoCall EXCEPT !.op = "getitem", !.index = index,
                               !.err = "TypeError",
                               !.before = Len(pTransfers)]
    /\ UNCHANGED pTransfers
    /\ UNCHANGED notPower

\* ------------------------------------------------------ power.py: beep

CMD_WRITE_piezo == 8

\* beeps = ((duration, 440),)
DEFAULT_FREQ == 440

\* struct.pack("H", n) takes 0 .. 65535
USHORT_MAX == 65535

\* notes in Power.note_to_freq
NOTES ==
    [n \in {"c", "d", "e", "f", "g", "a", "b", "uc"} |->
        CASE n = "c" -> 261 [] n = "d" -> 294 [] n = "e" -> 329
          [] n = "f" -> 349 [] n = "g" -> 392 [] n = "a" -> 440
          [] n = "b" -> 493 [] OTHER -> 523]

\* Variant: every name passes for a note.
NoteKnownAny(notestr) == TRUE

\* notes[notestr] raises KeyError, turned into ValueError, for other names
NoteKnown(notestr) == notestr \in DOMAIN NOTES

\* Power.note_to_freq(notestr), where it returns
note_to_freq(notestr) ==
    IF notestr \in DOMAIN NOTES THEN NOTES[notestr] ELSE 0

\* The first part of beep: the exception it raises for the combination of
\* arguments, "" when it goes on.
BeepArgsErr(duration, note, frequency) ==
    IF duration.ty # "list"
    THEN IF note.ty # "none" /\ frequency.ty # "none" THEN "ValueError"
         ELSE ""
    ELSE IF note.ty # "none" \/ frequency.ty # "none" THEN "ValueError"
         ELSE ""

\* The first part of beep: the pairs (duration, note or frequency) it goes
\* on with.
BeepList(duration, note, frequency) ==
    IF duration.ty # "list"
    THEN << [duration |-> duration,
             freq_desc |-> IF note.ty # "none" THEN note
                           ELSE IF frequency.ty # "none" THEN frequency
                           ELSE PyInt(DEFAULT_FREQ)] >>
    ELSE duration.items

\* The exception one round of beep's loop raises, "" for none: a string is
\* looked up as a note, anything else goes through int().
BeepEntryErr(e) ==
    IF e.freq_desc.ty = "str"
    THEN IF NoteKnown(e.freq_desc.s) THEN "" ELSE "ValueError"
    ELSE IF e.freq_desc.ty = "int" THEN "" ELSE "TypeError"

\* (int(duration), freq)
BeepEntry(e) ==
    [duration |-> e.duration.n,
     freq |-> IF e.freq_desc.ty = "str" THEN note_to_freq(e.freq_desc.s)
              ELSE e.freq_desc.n]

\* The loop of beep: the exception of the first round that raises one.
BeepLoopErr(beeps) ==
    IF \E i \in 1 .. Len(beeps) : BeepEntryErr(beeps[i]) # ""
    THEN BeepEntryErr(beeps[CHOOSE i \in 1 .. Len(beeps) :
                              /\ BeepEntryErr(beeps[i]) # ""
                              /\ \A j \in 1 .. i - 1 :
                                    BeepEntryErr(beeps[j]) = ""])
    ELSE ""

\* output_beeps
OutputBeeps(beeps) == [i \in 1 .. Len(beeps) |-> BeepEntry(beeps[i])]

\* struct.pack("HH", frequency, duration) raises struct.error for a number
\* that is no unsigned short.
PackErr(output_beeps) ==
    IF \E i \in 1 .. Len(output_beeps) :
          \/ output_beeps[i].freq \notin 0 .. USHORT_MAX
          \/ output_beeps[i].duration \notin 0 .. USHORT_MAX
    THEN "struct.error" ELSE ""

\* data of Power.enqueue_beeps, in unsigned shorts: frequency, then
\* duration, of each beep in turn.
PackBeeps(output_beeps) ==
    [k \in 1 .. 2 * Len(output_beeps) |->
        IF k % 2 = 1 THEN output_beeps[(k + 1) \div 2].freq
        ELSE output_beeps[k \div 2].duration]

\* Power.beep(duration, note, frequency), Power.enqueue_beeps included
beep(duration, note, frequency) ==
    LET call == [NoCall EXCEPT !.op = "beep", !.duration = duration,
                               !.note = note, !.frequency = frequency,
                               !.before = Len(pTransfers)]
        beeps == BeepList(duration, note, frequency)
    IN  /\ IF BeepArgsErr(duration, note, frequency) # ""
           THEN /\ pLast' = [call EXCEPT
                               !.err = BeepArgsErr(duration, note, frequency)]
                /\ UNCHANGED pTransfers
           ELSE IF BeepLoopErr(beeps) # ""
           THEN /\ pLast' = [call EXCEPT !.err = BeepLoopErr(beeps)]
                /\ UNCHANGED pTransfers
           ELSE IF PackErr(OutputBeeps(beeps)) # ""
           THEN /\ pLast' = [call EXCEPT !.err = PackErr(OutputBeeps(beeps))]
                /\ UNCHANGED pTransfers
           ELSE /\ pTransfers' = Append(pTransfers,
                       [dir |-> "write", request_type |-> 0,
                        request |-> REQUEST, value |-> 0,
                        index |-> CMD_WRITE_piezo,
                        data |-> PackBeeps(OutputBeeps(beeps))])
                /\ pLast' = call
        /\ UNCHANGED notPower

\* Beeps in a sequence given to beep.
MaxBeeps == 2

\* Transfers recorded on Power.handle when it is asked to beep.
MaxBeepTransfers == 2

\* The pairs of a sequence: a note, a name that is no note, a frequency.
BeepPairs ==
    { [duration |-> PyInt(100), freq_desc |-> PyStr("b")],
      [duration |-> PyInt(200), freq_desc |-> PyStr("q")],
      [duration |-> PyInt(300), freq_desc |-> PyInt(1000)] }

BeepSeqs == UNION {[1 .. n -> BeepPairs] : n \in 0 .. MaxBeeps}

\* duration: one beep's, or a sequence of pairs
BeepDurations == {PyInt(100)} \cup {PyList(q) : q \in BeepSeqs}

BeepNotes == {PyNone, PyStr("uc"), PyStr("q")}

\* frequency: none, one that fits an unsigned short, one that does not
BeepFrequencies == {PyNone, PyInt(1000), PyInt(USHORT_MAX + 1)}

PowerInit ==
    /\ pTransfers = <<>>
    /\ pLast = NoCall

\* ---------------------------------------------------------- specifications

\* The steps of a thread on the motor board, once it is in a call.
MotorSteps(t) ==
    \/ power_acquire(t)
    \/ power_write_cmd(t)
    \/ power_write_byte(t)
    \/ power_release(t)
    \/ \E ch \in Channels, b \in BOOLEAN : use_brake_store(t, ch, b)
    \/ use_brake_check(t)
    \/ use_brake_power(t)
    \/ get_fwver_call(t)
    \/ get_fwver_acquire(t)
    \/ get_fwver_write(t)
    \/ get_fwver_release(t)
    \/ jump_to_bootloader_call(t)
    \/ jump_to_bootloader_acquire(t)
    \/ jump_to_bootloader_write(t)
    \/ jump_to_bootloader_release(t)
    \/ \E r \in BootReplies : jump_to_bootloader_read(t, r)
    \/ jump_to_bootloader_drain(t)
    \/ Motor_close(t)

Init == MotorInitReady /\ RuggInitReady /\ PowerInit

\* Threads calling into one constructed Motor.
Next ==
    \E t \in Threads :
        \/ \E ch \in Channels, v \in RacePowers : power_store(t, ch, v)
        \/ \E r \in MotorLines :
              Answers(mWire, r) /\ get_fwver_readline(t, r)
        \/ MotorSteps(t)

Spec == Init /\ [][Next]_vars

\* One thread calling into one constructed Motor.
NextSeq ==
    \/ \E ch \in Channels, v \in Powers : power_store(1, ch, v)
    \/ \E r \in MotorLines : get_fwver_readline(1, r)
    \/ MotorSteps(1)

SpecSeq == Init /\ [][NextSeq]_vars

InitCtor == MotorInitNone /\ RuggInitNone /\ PowerInit

\* One thread constructing a Motor, one constructing a Ruggeduino.
NextCtor ==
    \/ \E check \in BOOLEAN : Motor_init_open(1, check)
    \/ Motor_init_acquire(1)
    \/ Motor_init_reset(1)
    \/ get_fwver_acquire(1)
    \/ get_fwver_write(1)
    \/ \E r \in MotorLines : get_fwver_readline(1, r)
    \/ get_fwver_release(1)
    \/ Motor_init_check(1)
    \/ Ruggeduino_init(1)
    \/ lock_acquire(1)
    \/ command_assert(1)
    \/ command_write(1)
    \/ \E r \in RuggLines : command_readline(1, r)
    \/ lock_release(1)

SpecCtor == InitCtor /\ [][NextCtor]_vars

\* One thread constructing a Motor, then calling into it.
NextLife ==
    \/ \E check \in BOOLEAN : Motor_init_open(1, check)
    \/ Motor_init_acquire(1)
    \/ Motor_init_reset(1)
    \/ Motor_init_check(1)
    \/ \E ch \in Channels, v \in RacePowers : power_store(1, ch, v)
    \/ \E r \in MotorLines : get_fwver_readline(1, r)
    \/ MotorSteps(1)

SpecLife == InitCtor /\ [][NextLife]_vars

\* The calls a thread makes on the Ruggeduino.
RuggCalls(t) ==
    \/ \E pin \in Pins, mode \in DOMAIN MODES : pin_mode(t, pin, mode)
    \/ \E pin \in Pins : digital_read(t, pin)
    \/ \E pin \in Pins, level \in BOOLEAN : digital_write(t, pin, level)
    \/ \E pin \in Pins : analogue_read(t, pin)
    \/ firmware_version_read(t)
    \/ Ruggeduino_close(t)

\* The steps of a thread inside a call on the Ruggeduino, but for its
\* reads.
RuggSteps(t) ==
    \/ lock_acquire(t)
    \/ command_assert(t)
    \/ command_write(t)
    \/ lock_release(t)

\* Threads calling into one constructed Ruggeduino.
NextRugg ==
    \E t \in Threads :
        \/ RuggCalls(t)
        \/ \E r \in RuggLines : Answers(rWire, r) /\ command_readline(t, r)
        \/ RuggSteps(t)

SpecRugg == Init /\ [][NextRugg]_vars

\* One thread calling into one constructed Ruggeduino.
NextRuggSeq ==
    \/ Len(rCalls) < MaxSeqCalls /\ RuggCalls(1)
    \/ \E r \in RuggLines : command_readline(1, r)
    \/ RuggSteps(1)

SpecRuggSeq == Init /\ [][NextRuggSeq]_vars

\* One thread constructs and uses the motor board and the Ruggeduino, a
\* call at a time.
GuardBudget == Len(mCalls) + Len(rCalls) < MaxGuardCalls

MotorTurn == rpc[1] = "idle" /\ (mpc[1] # "idle" \/ GuardBudget)

\* What a board answers here: nothing, or a well-formed line.
GuardMotorLines == {<<>>, EXPECTED_FW_VER}

GuardRuggLines == {<<>>, <<"h", "\n">>}

\* The board answers round x + 1 with r.
GuardAnswers(x, r) == WellFormed(r) => x < MaxLateAnswer

RuggTurn == mpc[1] = "idle" /\ (rpc[1] # "idle" \/ GuardBudget)

NextGuard ==
    \/ /\ MotorTurn
       /\ \/ \E check \in BOOLEAN : Motor_init_open(1, check)
          \/ Motor_init_acquire(1)
          \/ Motor_init_reset(1)
          \/ Motor_init_check(1)
          \/ \E ch \in Channels, v \in RacePowers : power_store(1, ch, v)
          \/ \E r \in GuardMotorLines :
                GuardAnswers(mloc[1].x, r) /\ get_fwver_readline(1, r)
          \/ MotorSteps(1)
    \/ /\ RuggTurn
       /\ \/ Ruggeduino_init(1)
          \/ RuggCalls(1)
          \/ \E r \in GuardRuggLines :
                GuardAnswers(rloc[1].x, r) /\ command_readline(1, r)
          \/ RuggSteps(1)

SpecGuard == InitCtor /\ [][NextGuard]_vars

\* Threads use one of the two serial boards, and may close it under each
\* other's calls.  The board leaves the reads of one thread at most
\* unanswered, as often as that thread reads.
Silent(wire, t, r) ==
    \/ WellFormed(r)
    \/ \A i \in 1 .. Len(wire) :
          (wire[i].k = "r" /\ ~wire[i].ok) => wire[i].t = t

\* The calls a thread begins on the motor board.
CloseMotorCalls(t) ==
    \/ \E ch \in Channels : power_store(t, ch, PWM_MAX)
    \/ \E ch \in Channels : use_brake_store(t, ch, FALSE)
    \/ get_fwver_call(t)
    \/ jump_to_bootloader_call(t)
    \/ Motor_close(t)

\* The steps of a thread inside a call on the motor board.
CloseMotorSteps(t) ==
    \/ power_acquire(t)
    \/ power_write_cmd(t)
    \/ power_write_byte(t)
    \/ power_release(t)
    \/ use_brake_check(t)
    \/ use_brake_power(t)
    \/ get_fwver_acquire(t)
    \/ get_fwver_write(t)
    \/ \E r \in GuardMotorLines :
          Silent(mWire, t, r) /\ get_fwver_readline(t, r)
    \/ get_fwver_release(t)
    \/ jump_to_bootloader_acquire(t)
    \/ jump_to_bootloader_write(t)
    \/ jump_to_bootloader_release(t)
    \/ \E r \in BootReplies : jump_to_bootloader_read(t, r)
    \/ jump_to_bootloader_drain(t)

\* The calls a thread begins on the Ruggeduino.
CloseRuggCalls(t) ==
    \/ digital_read(t, 0)
    \/ digital_write(t, MaxPin, TRUE)
    \/ firmware_version_read(t)
    \/ Ruggeduino_close(t)

\* The steps of a thread inside a call on the Ruggeduino.
CloseRuggSteps(t) ==
    \/ \E r \in GuardRuggLines :
          Silent(rWire, t, r) /\ command_readline(t, r)
    \/ RuggSteps(t)

NextClose ==
    \E t \in Threads :
        \/ rCalls = <<>> /\ CloseMotorCalls(t)
        \/ CloseMotorSteps(t)
        \/ mCalls = <<>> /\ CloseRuggCalls(t)
        \/ CloseRuggSteps(t)

\* A thread inside a call goes on: every transport call returns, and the
\* scheduler lets every thread run.
SpecClose ==
    /\ Init
    /\ [][NextClose]_vars
    /\ \A t \in Threads :
          WF_vars(CloseMotorSteps(t)) /\ WF_vars(CloseRuggSteps(t))

\* ------------------------------------------- the Ruggeduino's side of the line
\*
\* The board answers the commands written to it in the order they were
\* written, each with one line, at a moment of its choosing; its answers
\* wait in the port's input buffer until readline() takes them, the oldest
\* first.  What the board sent is recorded in rWire as events of kind "d".

IsCommand(e) == e.k = "w"

IsBoardLine(e) == e.k = "d"

IsTaken(e) == e.k = "r" /\ e.ok

\* The commands written, the lines the board has sent, the reads that took
\* a line.
rWritten == SelectSeq(rWire, IsCommand)

rSent == SelectSeq(rWire, IsBoardLine)

rTaken == SelectSeq(rWire, IsTaken)

\* The lines waiting in the input buffer.
rBuffer == SubSeq(rSent, Len(rTaken) + 1, Len(rSent))

\* The line the board answers a command with: the level of the pin (pin 0
\* is high, the others low), a reading, its version, an empty line.
BoardLine(cmd) ==
    CASE cmd[1] = "r" -> IF cmd[2] = "a" THEN <<"h", "\n">>
                         ELSE <<"l", "\n">>
      [] cmd[1] = "a" -> <<"5", "1", "2", "\n">>
      [] cmd[1] = "v" -> <<"S", "R", "d", "u", "i", "n", "o", ":", "1", "\n">>
      [] OTHER -> <<"\n">>

\* The board answers the oldest command it has not answered yet.
Board_answers ==
    /\ Len(rSent) < Len(rWritten)
    /\ LET w == rWritten[Len(rSent) + 1]
       IN  rWire' = Append(rWire,
                [t |-> 0, k |-> "d", b |-> BoardLine(w.b), id |-> w.id,
                 x |-> w.x, ok |-> TRUE, a |-> 0, held |-> FALSE])
    /\ UNCHANGED <<notRugg, rPhase, rOpen, rLock, rCalls, rWarned, rpc, rloc>>

\* serial.readline() on that line: the oldest line waiting, or nothing
\* when the timeout passes with the buffer empty.
Board_readline(t) ==
    IF rBuffer # <<>>
    THEN command_readline(t, rBuffer[1].b)
    ELSE BadReads(rWire) < MaxBadReads /\ command_readline(t, <<>>)

\* One thread calling into a Ruggeduino whose board answers when it will.
NextLate ==
    \/ RuggCalls(1)
    \/ RuggSteps(1)
    \/ Board_readline(1)
    \/ Board_answers

SpecLate == Init /\ [][NextLate]_vars

\* Threads calling a Ruggeduino's operations, and command itself.
NextDirect ==
    \E t \in Threads :
        \/ \E pin \in Pins : digital_read(t, pin)
        \/ firmware_version_read(t)
        \/ \E pin \in Pins : command_call(t, <<"a", encode_pin(pin)>>)
        \/ command_return(t)
        \/ \E r \in GuardRuggLines :
              Answers(rWire, r) /\ command_readline(t, r)
        \/ RuggSteps(t)

SpecDirect == Init /\ [][NextDirect]_vars

\* Calls on the power board's output rails.
NextPower ==
    \/ \E index \in RailIndices, value \in PyValues :
          Outputs_setitem(index, value)
    \/ \E index \in RailIndices : Outputs_getitem(index)

SpecPower == Init /\ [][NextPower]_vars

\* Calls of beep on the power board.
NextBeep ==
    \E duration \in BeepDurations, note \in BeepNotes,
       frequency \in BeepFrequencies :
        Len(pTransfers) < MaxBeepTransfers /\ beep(duration, note, frequency)

SpecBeep == Init /\ [][NextBeep]_vars

\* ------------------------------------------------- what the claims speak of

\* A line as the protocol wants it: not empty, and ended by a newline.
Terminated(r) == r # <<>> /\ r[Len(r)] = "\n"

\* The positions of a trace that belong to call id.
EventsOf(wire, id) == {i \in 1 .. Len(wire) : wire[i].id = id}

WritesOf(wire, id) == {i \in EventsOf(wire, id) : wire[i].k = "w"}

ReadsOf(wire, id) == {i \in EventsOf(wire, id) : wire[i].k = "r"}

\* Every thread is outside any call.
MotorQuiescent == \A t \in Threads : mpc[t] = "idle"

\* The call is one that sets a channel's power (the brake setter does so
\* through the power setter).
SetsPower(id) == mCalls[id].op \in {"power", "use_brake"}

\* The byte a channel must be sent for a requested power.
WantedByte(v, brake) ==
    IF v = 0 /\ brake THEN 2
    ELSE (IF v > 100 THEN 100 ELSE IF v < -100 THEN -100 ELSE v) + 128

\* The positions of the speed bytes written for a channel.
SpeedBytesOf(ch) ==
    {i \in 1 .. Len(mWire) :
        /\ SetsPower(mWire[i].id)
        /\ mCalls[mWire[i].id].ch = ch
        /\ mWire[i].n = 1}

Latest(S) == CHOOSE i \in S : \A j \in S : j <= i

\* ---------------------------------------------------------------------- C1

\* C1: no two threads have a command in flight on the motor board's serial
\* link at the same time: the writes and reads of one exchange (one round
\* of one call) are never separated by a write or read of another thread.
C1_ExchangesNotInterleaved ==
    \A i, k \in 1 .. Len(mWire) :
        (i < k /\ mWire[i].id = mWire[k].id /\ mWire[i].x = mWire[k].x)
            => \A j \in i .. k : mWire[j].t = mWire[i].t

\* ---------------------------------------------------------------------- C2

\* C2: the Ruggeduino's wire trace is a concatenation of whole units: every
\* write is that call's command, the event after a write is the read of the
\* same thread in the same round of the same call, every read follows such
\* a write, and a thread that has written and not yet read finds its write
\* at the end of the trace.
C2_WholeUnits ==
    /\ \A i \in 1 .. Len(rWire) :
          /\ rWire[i].k = "w" => rWire[i].b = rCalls[rWire[i].id].cmd
          /\ (rWire[i].k = "w" /\ i < Len(rWire)) =>
                /\ rWire[i + 1].k = "r"
                /\ rWire[i + 1].t = rWire[i].t
                /\ rWire[i + 1].id = rWire[i].id
                /\ rWire[i + 1].x = rWire[i].x
          /\ rWire[i].k = "r" =>
                /\ i > 1
                /\ rWire[i - 1].k = "w"
                /\ rWire[i - 1].t = rWire[i].t
                /\ rWire[i - 1].id = rWire[i].id
    /\ \A t \in Threads :
          rpc[t] = "cmd_read" =>
              /\ Len(rWire) > 0
              /\ rWire[Len(rWire)].k = "w"
              /\ rWire[Len(rWire)].t = t

\* Two threads have each completed a digital_write, on different pins; the
\* thread that called second reached the wire first, so the calls overlapped.
C2_Witness ==
    /\ Len(rCalls) = 2
    /\ rCalls[1].op = "digital_write"
    /\ rCalls[2].op = "digital_write"
    /\ rCalls[1].t # rCalls[2].t
    /\ rCalls[1].cmd[2] # rCalls[2].cmd[2]
    /\ \A t \in {rCalls[1].t, rCalls[2].t} :
          rpc[t] = "idle" /\ rloc[t].returned
    /\ Len(rWire) >= 4
    /\ rWire[1].id = 2
    /\ rWire[Len(rWire)].id = 1

\* ---------------------------------------------------------------------- C3

\* The bytes written to the motor board, in order (reads put none there).
IsWrite(e) == e.k = "w"

mWritten == SelectSeq(mWire, IsWrite)

\* C3: the bytes on the motor board's wire form intact two-byte speed
\* units: the first write of a power setting is its channel's command byte
\* and is followed at once by the second write of the same call, which is
\* that call's speed or brake byte; a thread that has written the command
\* byte and not yet its speed byte finds its own byte last on the wire.
C3_SpeedUnits ==
    /\ \A i \in 1 .. Len(mWritten) :
          SetsPower(mWritten[i].id) =>
              LET e == mWritten[i]
                  c == mCalls[e.id]
                  v == IF c.op = "power" THEN c.arg ELSE 0
              IN  /\ e.t = c.t
                  /\ e.n \in {0, 1}
                  /\ e.n = 0 =>
                        /\ e.b = IF c.ch = 0 THEN 2 ELSE 3
                        /\ i < Len(mWritten) =>
                              /\ mWritten[i + 1].id = e.id
                              /\ mWritten[i + 1].n = 1
                  /\ e.n = 1 =>
                        /\ i > 1
                        /\ mWritten[i - 1].id = e.id
                        /\ mWritten[i - 1].n = 0
                        /\ e.b \in {WantedByte(v, TRUE), WantedByte(v, FALSE)}
    /\ \A t \in Threads :
          mpc[t] = "pw_byte" =>
              /\ Len(mWritten) > 0
              /\ mWritten[Len(mWritten)].id = mloc[t].id

\* Two threads have each set a power, one on m0 and one on m1; the thread
\* that called second reached the wire first, so the calls overlapped.
C3_Witness ==
    /\ Len(mCalls) = 2
    /\ mCalls[1].op = "power"
    /\ mCalls[2].op = "power"
    /\ mCalls[1].t # mCalls[2].t
    /\ mCalls[1].ch # mCalls[2].ch
    /\ MotorQuiescent
    /\ Len(mWire) = 4
    /\ mWire[1].id = 2
    /\ mWire[4].id = 1

\* ---------------------------------------------------------------------- C4

\* The operations of the Ruggeduino that go through command.
Exchanges ==
    {"pin_mode", "digital_read", "digital_write", "analogue_read",
     "firmware_version_read"}

\* C4: one exchange writes the command at most 10 times, each time
\* verbatim, and reads once after each write; it goes round again only
\* after a read that is empty or unterminated; it returns the first read
\* that is non-empty and ends in a newline; it fails, naming the command,
\* after exactly 10 writes whose reads were all malformed.
C4_BoundedRetry ==
    \A t \in Threads :
        rloc[t].op \in Exchanges =>
            LET id == rloc[t].id
                W  == WritesOf(rWire, id)
                R  == ReadsOf(rWire, id)
                done == rpc[t] \in {"rel", "idle"}
            IN  /\ Cardinality(W) <= 10
                /\ \A i \in W : rWire[i].b = rCalls[id].cmd
                /\ Cardinality(R) <= Cardinality(W)
                /\ Cardinality(W) <= Cardinality(R) + 1
                /\ (rpc[t] = "cmd_write" /\ rloc[t].x > 0) =>
                      /\ ~Terminated(rloc[t].r)
                      /\ Cardinality(W) = rloc[t].x
                      /\ \A i \in R : ~rWire[i].ok
                /\ (done /\ rloc[t].err \in {"", "ValueError"}) =>
                      /\ Terminated(rloc[t].r)
                      /\ Cardinality(W) = Cardinality(R)
                      /\ Cardinality(W) = rloc[t].x + 1
                      /\ \A i \in R : rWire[i].ok <=> i = Latest(R)
                      /\ (rloc[t].op = "firmware_version_read"
                            /\ rpc[t] = "idle") =>
                            rloc[t].retLine = rloc[t].r
                /\ (done /\ rloc[t].err = "Exception") =>
                      /\ Cardinality(W) = 10
                      /\ Cardinality(R) = 10
                      /\ \A i \in R : ~rWire[i].ok
                      /\ ~Terminated(rloc[t].r)
                      /\ rloc[t].errcmd = rCalls[id].cmd
                /\ (done /\ rOpen) =>
                      rloc[t].err \in {"", "ValueError", "Exception"}

\* Nine malformed reads, then a well-formed line on the 10th attempt: the
\* exchange has returned it.
C4_Witness ==
    /\ rloc[1].op = "digital_write"
    /\ rpc[1] = "idle"
    /\ rloc[1].returned
    /\ Cardinality(WritesOf(rWire, rloc[1].id)) = 10
    /\ Cardinality(ReadsOf(rWire, rloc[1].id)) = 10

\* ---------------------------------------------------------------------- C5

\* The version queries written to the motor board.
VersionQueries == {i \in 1 .. Len(mWire) : mWire[i].k = "w" /\ mWire[i].b = 1}

MotorReads == {i \in 1 .. Len(mWire) : mWire[i].k = "r"}

\* C5: Motor's construction ends in one of three ways.  It succeeds, after
\* a well-formed version response that is "MCV4B:3\n" when the check was
\* asked for; it raises IncorrectFirmware, carrying the expected and the
\* actual string, after a well-formed response that differs, the check
\* asked for; it raises FirmwareReadFail after 10 version queries none of
\* which was answered by a well-formed line, check or no check.  No more
\* than 10 queries are ever made.
C5_FirmwareOutcomes ==
    LET r == mloc[1].r
        literal == <<"M", "C", "V", "4", "B", ":", "3", "\n">>
    IN  /\ Cardinality(VersionQueries) <= 10
        /\ mPhase \in {"ready", "failed"} =>
              /\ mloc[1].err \in {"", "IncorrectFirmware", "FirmwareReadFail"}
              /\ (Terminated(r) /\ r = literal) =>
                    mPhase = "ready" /\ mloc[1].err = ""
              /\ (Terminated(r) /\ r # literal /\ mCheck) =>
                    /\ mPhase = "failed"
                    /\ mloc[1].err = "IncorrectFirmware"
                    /\ mloc[1].expected = literal
                    /\ mloc[1].actual = r
              /\ ~Terminated(r) =>
                    /\ mPhase = "failed"
                    /\ mloc[1].err = "FirmwareReadFail"
                    /\ Cardinality(VersionQueries) = 10
                    /\ Cardinality(MotorReads) = 10
                    /\ \A i \in MotorReads : ~mWire[i].ok
              /\ mloc[1].err = "FirmwareReadFail" => ~Terminated(r)
              /\ mloc[1].err = "IncorrectFirmware" => mCheck
              /\ mPhase = "ready" <=> mloc[1].err = ""

\* Construction without the version check has failed with FirmwareReadFail
\* after 10 unanswered queries.
C5_Witness ==
    /\ mPhase = "failed"
    /\ ~mCheck
    /\ mloc[1].err = "FirmwareReadFail"
    /\ Cardinality(VersionQueries) = 10

\* ---------------------------------------------------------------------- C6

\* The line names the SR firmware: "SRduino", then a colon.
NamesSRFirmware(r) ==
    /\ Len(r) >= 8
    /\ SubSeq(r, 1, 7) = <<"S", "R", "d", "u", "i", "n", "o">>
    /\ r[8] = ":"

\* What C6 says of the well-formed responses: on the Ruggeduino any of them
\* lets construction succeed, the port open and the lock free, with a
\* warning exactly when it does not name the SR firmware; on the motor
\* board one that is not the expected literal is fatal.
C6_MismatchPolicies ==
    /\ (rPhase \in {"ready", "failed"} /\ Terminated(rloc[1].r)) =>
          /\ rPhase = "ready"
          /\ rloc[1].err = ""
          /\ rOpen
          /\ rLock = 0
          /\ rpc[1] = "idle"
          /\ rWarned <=> ~NamesSRFirmware(rloc[1].r)
    /\ (mPhase \in {"ready", "failed"} /\ mCheck /\ Terminated(mloc[1].r)
          /\ mloc[1].r # <<"M", "C", "V", "4", "B", ":", "3", "\n">>) =>
          mPhase = "failed" /\ mloc[1].err = "IncorrectFirmware"

\* The version query of the Ruggeduino's construction went unanswered 10
\* times.
RuggVersionExhausted ==
    /\ rPhase \in {"ready", "failed"}
    /\ rloc[1].op = "init"
    /\ Cardinality(ReadsOf(rWire, rloc[1].id)) = 10
    /\ \A i \in ReadsOf(rWire, rloc[1].id) : ~rWire[i].ok

C7_PowerRoundTrip ==
    (mpc[1] = "idle" /\ mloc[1].op = "power" /\ mloc[1].err = "") =>
        LET v  == mloc[1].arg
            ch == mloc[1].ch
            n  == Len(mWritten)
        IN  /\ mPower[ch] = v
            /\ n >= 2
            /\ mWritten[n - 1].b = IF ch = 0 THEN 2 ELSE 3
            /\ mWritten[n].b = WantedByte(v, mBrake[ch])
            /\ v > 100 => mWritten[n].b = 228
            /\ v < -100 => mWritten[n].b = 28
            /\ (v = 0 /\ mBrake[ch]) => mWritten[n].b = 2
            /\ (v = 0 /\ ~mBrake[ch]) => mWritten[n].b = 128

\* With the brake disabled, a power above the range has been set: it is
\* cached as asked and sent as 228.
C7_Witness ==
    /\ mpc[1] = "idle"
    /\ mloc[1].op = "power"
    /\ mloc[1].err = ""
    /\ mloc[1].arg > 100
    /\ ~mBrake[mloc[1].ch]
    /\ mPower[mloc[1].ch] = mloc[1].arg
    /\ mWritten[Len(mWritten)].b = 228

\* ---------------------------------------------------------------------- C8

\* C8: whenever no call is in progress on a Motor that is open and whose
\* calls all succeeded, the last speed byte written for a channel is the
\* encoding of that channel's cached power.
C8_CacheMatchesWire ==
    (MotorQuiescent /\ mOpen /\ \A t \in Threads : mloc[t].err = "") =>
        \A ch \in Channels :
            SpeedBytesOf(ch) # {} =>
                mWire[Latest(SpeedBytesOf(ch))].b
                    = WantedByte(mPower[ch], mBrake[ch])

\* ---------------------------------------------------------------------- C9

\* C9: a power or brake setting that ended in a transport error has left
\* the channel's cached power and brake flag as they were before the call.
C9_CacheKeptOnError ==
    (mpc[1] = "idle" /\ mloc[1].op \in {"power", "use_brake"}
        /\ mloc[1].err = "SerialException") =>
        /\ mPower[mloc[1].ch] = mloc[1].oldPower
        /\ mBrake[mloc[1].ch] = mloc[1].oldBrake

\* --------------------------------------------------------------------- C10

\* C10: a rail write with an index below 0 or above 5 fails and leaves the
\* number of transfers as it was; one with an index in 0..5 issues exactly
\* one transfer, to opcode 0 + index, whose value is 1 for a true value and
\* 0 for a false one.
C10_RailWrite ==
    pLast.op = "setitem" =>
        IF pLast.index < 0 \/ pLast.index >= 6
        THEN /\ pLast.err # ""
             /\ Len(pTransfers) = pLast.before
        ELSE /\ pLast.err = ""
             /\ Len(pTransfers) = pLast.before + 1
             /\ pTransfers[Len(pTransfers)].dir = "write"
             /\ pTransfers[Len(pTransfers)].index = pLast.index
             /\ pTransfers[Len(pTransfers)].value \in {0, 1}
             /\ pTransfers[Len(pTransfers)].value = 1 <=>
                   (pLast.value.ty # "none" /\ pLast.value.n # 0)

\* After one transfer, a write to rail 6 has failed without a transfer.
C10_Witness ==
    /\ pLast.op = "setitem"
    /\ pLast.index = 6
    /\ pLast.err # ""
    /\ pLast.before = 1
    /\ Len(pTransfers) = 1

\* --------------------------------------------------------------------- C11

\* The transfers that wrote rail i.
RailWrites(i) ==
    {k \in 1 .. Len(pTransfers) :
        pTransfers[k].dir = "write" /\ pTransfers[k].index = i}

\* C11: reading rail i of the outputs, i in 0..5, after it was written,
\* returns the value last written to rail i (1 for true, 0 for false) and
\* issues no transfer.
C11_ReadServedFromCache ==
    (pLast.op = "getitem" /\ pLast.index \in 0 .. 5
        /\ RailWrites(pLast.index) # {}) =>
        /\ pLast.err = ""
        /\ pLast.ret = pTransfers[Latest(RailWrites(pLast.index))].value
        /\ Len(pTransfers) = pLast.before

\* --------------------------------------------------------------------- C12

\* The names Power.note_to_freq knows, and their frequencies.
NoteTable ==
    [n \in {"c", "d", "e", "f", "g", "a", "b", "uc"} |->
        CASE n = "c" -> 261 [] n = "d" -> 294 [] n = "e" -> 329
          [] n = "f" -> 349 [] n = "g" -> 392 [] n = "a" -> 440
          [] n = "b" -> 493 [] n = "uc" -> 523]

IsBadNote(v) == v.ty = "str" /\ v.s \notin DOMAIN NoteTable

\* The frequency a note or a number stands for.
FreqOf(v) == IF v.ty = "str" THEN NoteTable[v.s] ELSE v.n

\* The beep was a single one.
SingleBeep == pLast.op = "beep" /\ pLast.duration.ty = "int"

\* The beep was a sequence, given without note or frequency.
SequenceBeep ==
    /\ pLast.op = "beep"
    /\ pLast.duration.ty = "list"
    /\ pLast.note.ty = "none"
    /\ pLast.frequency.ty = "none"

\* The call was rejected as an invalid argument, without a transfer.
Rejected ==
    /\ pLast.err = "ValueError"
    /\ Len(pTransfers) = pLast.before

\* The call made exactly one transfer, to the piezo, whose payload is the
\* given numbers.
OnePiezoTransfer(payload) ==
    /\ pLast.err = ""
    /\ Len(pTransfers) = pLast.before + 1
    /\ pTransfers[Len(pTransfers)].dir = "write"
    /\ pTransfers[Len(pTransfers)].index = 8
    /\ pTransfers[Len(pTransfers)].data = payload

\* C12: a single beep with a name that is no note, or with both note and
\* frequency, is rejected (ValueError) without a transfer; so is a sequence
\* with a name that is no note anywhere in it, after valid entries too; a
\* single beep with neither note nor frequency makes one piezo transfer
\* carrying (440, duration); a sequence of N beeps that succeeds makes one
\* transfer carrying the N pairs (frequency, duration) in the given order.
C12_BeepValidation ==
    /\ (SingleBeep /\ pLast.note.ty # "none" /\ pLast.frequency.ty # "none")
          => Rejected
    /\ (SingleBeep /\ IsBadNote(pLast.note)) => Rejected
    /\ (SingleBeep /\ pLast.note.ty = "none" /\ pLast.frequency.ty = "none")
          => OnePiezoTransfer(<<440, pLast.duration.n>>)
    /\ (SequenceBeep /\ \E i \in 1 .. Len(pLast.duration.items) :
                            IsBadNote(pLast.duration.items[i].freq_desc))
          => Rejected
    /\ (SequenceBeep /\ pLast.err = "") =>
          LET items == pLast.duration.items
          IN  OnePiezoTransfer(
                  [k \in 1 .. 2 * Len(items) |->
                      IF k % 2 = 1 THEN FreqOf(items[(k + 1) \div 2].freq_desc)
                      ELSE items[k \div 2].duration.n])
    /\ (SequenceBeep /\ \A i \in 1 .. Len(pLast.duration.items) :
                            ~IsBadNote(pLast.duration.items[i].freq_desc))
          => pLast.err = ""

\* After one transfer, a sequence whose second entry names no note has
\* been rejected; nothing was queued.
C12_Witness ==
    /\ SequenceBeep
    /\ Len(pLast.duration.items) = 2
    /\ ~IsBadNote(pLast.duration.items[1].freq_desc)
    /\ IsBadNote(pLast.duration.items[2].freq_desc)
    /\ pLast.err = "ValueError"
    /\ pLast.before = 1
    /\ Len(pTransfers) = 1

\* --------------------------------------------------------------------- C13

\* C13: one thread has set the brake flag of a channel and the call has
\* returned.  If the channel's cached power was 0, the call wrote exactly
\* two bytes, the last two on the wire: the channel's command byte, then
\* the brake byte 2 if the flag is now on, the zero-speed byte 128 if it
\* is now off.  If the cached power was not 0, the call wrote nothing.
C13_BrakeReissues ==
    (mpc[1] = "idle" /\ mloc[1].op = "use_brake" /\ mloc[1].err = "") =>
        LET E == EventsOf(mWire, mloc[1].id)
            n == Len(mWire)
        IN  IF mloc[1].oldPower = 0
            THEN /\ n >= 2
                 /\ E = {n - 1, n}
                 /\ mWire[n - 1].k = "w"
                 /\ mWire[n - 1].b = IF mloc[1].ch = 0 THEN 2 ELSE 3
                 /\ mWire[n].k = "w"
                 /\ mWire[n].b = IF mBrake[mloc[1].ch] THEN 2 ELSE 128
                 /\ mBrake[mloc[1].ch] = (mloc[1].arg = 1)
            ELSE E = {}

\* The brake of a channel at power 0 was turned off, then on again: the
\* second call re-issued the command with the brake byte.
C13_Witness ==
    /\ mpc[1] = "idle"
    /\ Len(mCalls) = 2
    /\ mCalls[1].op = "use_brake"
    /\ mCalls[1].arg = 0
    /\ mloc[1].op = "use_brake"
    /\ mloc[1].id = 2
    /\ mloc[1].arg = 1
    /\ mloc[1].ch = mCalls[1].ch
    /\ mloc[1].err = ""
    /\ Len(mWire) = 4
    /\ mWire[2].b = 128
    /\ mWire[4].b = 2

\* --------------------------------------------------------------------- C14

\* The call that constructs the Motor is the first of mCalls.
IsSpeedCommand(e) == e.k = "w" /\ mCalls[e.id].op \in {"power", "use_brake"}

\* The reads of the construction that returned a well-formed line.
VersionAnswers ==
    {i \in 1 .. Len(mWire) :
        mWire[i].id = 1 /\ mWire[i].k = "r" /\ mWire[i].ok}

\* C14: the first byte written to the motor board is the reset command,
\* written by the construction; version queries come after it only; the
\* channels exist (calls are made, speed commands written) only after a
\* well-formed version was read, which is the expected literal when the
\* check was asked for; when the check was asked for and the version read
\* is another, the port is closed, IncorrectFirmware is raised, and no
\* speed command is on the wire, then or later.
C14_ConstructionOrder ==
    /\ Len(mWire) > 0 =>
          /\ mWire[1].k = "w"
          /\ mWire[1].b = 0
          /\ mWire[1].id = 1
          /\ mCalls[1].op = "init"
    /\ \A i \in 1 .. Len(mWire) :
          /\ (mWire[i].k = "w" /\ mWire[i].b = 1) => i > 1
          /\ (mWire[i].k = "w" /\ mWire[i].b = 0) => i = 1
          /\ IsSpeedCommand(mWire[i]) =>
                \E j \in VersionAnswers : j < i
    /\ (mPhase = "ready" \/ Len(mCalls) > 1) =>
          /\ VersionAnswers # {}
          /\ (mloc[1].op = "init" /\ mCheck) =>
                mloc[1].r = <<"M", "C", "V", "4", "B", ":", "3", "\n">>
    /\ (mPhase # "init" /\ mloc[1].op = "init" /\ mCheck
          /\ Terminated(mloc[1].r)
          /\ mloc[1].r # <<"M", "C", "V", "4", "B", ":", "3", "\n">>) =>
          /\ mPhase = "failed"
          /\ mloc[1].err = "IncorrectFirmware"
          /\ ~mOpen
    /\ mPhase = "failed" =>
          /\ Len(mCalls) = 1
          /\ \A i \in 1 .. Len(mWire) : ~IsSpeedCommand(mWire[i])

\* A Motor was constructed after two version queries, the first of them
\* unanswered, and a power has then been set on it.
C14_Witness ==
    /\ mPhase = "ready"
    /\ mpc[1] = "idle"
    /\ Len(mCalls) = 2
    /\ mCalls[2].op = "power"
    /\ Len(mWire) = 7
    /\ mWire[3].k = "r"
    /\ ~mWire[3].ok
    /\ IsSpeedCommand(mWire[7])

\* --------------------------------------------------------------------- C15

\* The acquisitions of a board's lock under which something was written or
\* read: the call, and which of the call's acquisitions it was.
Acquisitions(wire) ==
    {<<wire[i].id, wire[i].a>> : i \in {j \in 1 .. Len(wire) : wire[j].held}}

\* What was written and read under an acquisition, in order.
Under(wire, q) ==
    LET Mine(e) == e.held /\ e.id = q[1] /\ e.a = q[2]
    IN  SelectSeq(wire, Mine)

\* The thread is still inside the acquisition.
MotorInside(q) ==
    \E t \in Threads :
        /\ mpc[t] # "idle"
        /\ mloc[t].id = q[1]
        /\ mloc[t].acq = q[2]
        /\ \E l \in {0, 1, 2} : mLock[l] = t

RuggInside(q) ==
    \E t \in Threads :
        /\ rpc[t] # "idle"
        /\ rloc[t].id = q[1]
        /\ rloc[t].acq = q[2]
        /\ rLock = t

\* One write, then one read; less while the thread is still inside.
OnePair(u, inside) ==
    /\ Len(u) <= 2
    /\ u[1].k = "w"
    /\ Len(u) = 2 => u[2].k = "r"
    /\ ~inside => Len(u) = 2

\* C15 as stated: between taking and releasing a board's lock an operation
\* makes exactly one write followed by exactly one read.
C15_AsStated ==
    /\ \A q \in Acquisitions(mWire) : OnePair(Under(mWire, q), MotorInside(q))
    /\ \A q \in Acquisitions(rWire) : OnePair(Under(rWire, q), RuggInside(q))

\* Writes only, n of them; fewer while the thread is still inside.
WritesOnly(u, n, inside) ==
    /\ Len(u) <= n
    /\ \A i \in 1 .. Len(u) : u[i].k = "w"
    /\ ~inside => Len(u) = n

\* Rounds of the write of cmd followed by a read: at most 10, every read
\* but the last one malformed, and on leaving the last read well-formed
\* unless it was the 10th.
Rounds(u, cmd, inside) ==
    /\ Len(u) <= 20
    /\ \A i \in 1 .. Len(u) :
          /\ u[i].k = IF i % 2 = 1 THEN "w" ELSE "r"
          /\ u[i].k = "w" => u[i].b = cmd
          /\ u[i].x = (i - 1) \div 2
          /\ (u[i].k = "r" /\ i < Len(u)) => ~u[i].ok
    /\ ~inside =>
          /\ Len(u) % 2 = 0
          /\ u[Len(u)].ok \/ Len(u) = 20

\* C15, amended: what an acquisition covers depends on the operation.  On
\* the Ruggeduino a call takes the lock once and keeps it over all rounds
\* of its exchange, 1 to 10 writes of the command each followed by a read.
\* On the motor board a version query takes the lock anew for every round,
\* one write of the query and one read; the reset of the construction and
\* the bootloader command hold it for one write and no read; a power
\* setting holds it for its two writes and no read.
C15_Amended ==
    /\ \A q \in Acquisitions(rWire) :
          /\ q[2] = 1
          /\ Rounds(Under(rWire, q), rCalls[q[1]].cmd, RuggInside(q))
    /\ \A q \in Acquisitions(mWire) :
          LET u  == Under(mWire, q)
              op == mCalls[q[1]].op
              busy == MotorInside(q)
          IN  CASE op = "init" /\ q[2] = 1 ->
                     WritesOnly(u, 1, busy) /\ u[1].b = 0
                [] op = "init" /\ q[2] > 1 ->
                     /\ OnePair(u, busy)
                     /\ u[1].b = 1
                     /\ u[1].x = q[2] - 2
                [] op = "get_fwver" ->
                     /\ OnePair(u, busy)
                     /\ u[1].b = 1
                     /\ u[1].x = q[2] - 1
                [] op = "bootloader" ->
                     WritesOnly(u, 1, busy) /\ u[1].b = 4 /\ q[2] = 1
                [] op \in {"power", "use_brake"} ->
                     WritesOnly(u, 2, busy) /\ u[1].b \in {2, 3} /\ q[2] = 1
                [] OTHER -> FALSE

\* A Motor was constructed after a version query that went unanswered,
\* and so was a Ruggeduino: the first took the lock twice for its
\* queries, the second once.
C15_Witness ==
    /\ mPhase = "ready"
    /\ rPhase = "ready"
    /\ Acquisitions(mWire) = {<<1, 1>>, <<1, 2>>, <<1, 3>>}
    /\ Acquisitions(rWire) = {<<1, 1>>}
    /\ Len(Under(rWire, <<1, 1>>)) = 4

\* --------------------------------------------------------------------- C16

\* The thread waits for a board's lock.
WaitsMotor(t) == mpc[t] \in {"pw_acq", "fw_acq", "bl_acq", "in_acq"}

WaitsRugg(t) == rpc[t] = "acq"

HoldsMotor(t) == \E l \in {0, 1, 2} : mLock[l] = t

HoldsRugg(t) == rLock = t

\* No lock is leaked and none is taken twice: a thread outside any call
\* holds no lock, however its call ended; a thread that waits for a lock
\* does not hold it; a lock that is held is held by a thread that is
\* inside a call, past the acquisition.
C16_NoLeak ==
    \A t \in Threads :
        /\ mpc[t] = "idle" => ~HoldsMotor(t)
        /\ rpc[t] = "idle" => ~HoldsRugg(t)
        /\ WaitsMotor(t) => ~HoldsMotor(t)
        /\ WaitsRugg(t) => ~HoldsRugg(t)
        /\ \A l \in {0, 1, 2} :
              mLock[l] \in {0} \cup {u \in Threads : ~WaitsMotor(u)
                                                      /\ mpc[u] # "idle"}
        /\ rLock \in {0} \cup {u \in Threads : ~WaitsRugg(u)
                                                /\ rpc[u] # "idle"}

\* C16: calls and close() interleave in any way, and no lock is ever
\* leaked or taken twice; hence a thread that waits for a board's lock
\* comes to hold it.
C16_CloseIsSafe ==
    /\ []C16_NoLeak
    /\ \A t \in Threads :
          /\ WaitsMotor(t) ~> HoldsMotor(t)
          /\ WaitsRugg(t) ~> HoldsRugg(t)

\* One thread closed the motor board between the two writes of the other
\* thread's power setting, which ended in a transport error; the lock is
\* free.
C16_Witness ==
    \E t \in Threads :
        /\ mpc[t] = "idle"
        /\ mloc[t].op = "power"
        /\ mloc[t].err = "SerialException"
        /\ mloc[t].n = 1
        /\ ~mOpen
        /\ \A l \in {0, 1, 2} : mLock[l] = 0

\* --------------------------------------------------------------------- C17

\* C17: the line an exchange takes from the port is the board's answer to
\* the command that exchange wrote last, and an exchange that has returned
\* leaves no line behind, waiting or still to come, for the next one.
C17_OwnReply ==
    /\ \A j \in 1 .. Len(rTaken) :
          /\ rSent[j].id = rTaken[j].id
          /\ rSent[j].x = rTaken[j].x
    /\ \A t \in Threads :
          (rpc[t] = "idle" /\ rloc[t].returned) =>
              /\ rBuffer = <<>>
              /\ Len(rSent) = Len(rWritten)

\* --------------------------------------------------------------------- C18

\* C18: one thread has set the brake flag of a channel and another a power
\* v other than 0 on the same channel, both calls have returned without
\* error: the cached power is v, and the last bytes written for the channel
\* are those of the power setting, not a zero-speed or brake command of
\* the brake setting.
C18_BrakeKeepsPower ==
    \A b, q \in 1 .. Len(mCalls) :
        (/\ MotorQuiescent
         /\ Len(mCalls) = 2
         /\ mCalls[b].op = "use_brake"
         /\ mCalls[q].op = "power"
         /\ mCalls[q].arg # 0
         /\ mCalls[b].ch = mCalls[q].ch
         /\ mCalls[b].t # mCalls[q].t
         /\ \A t \in Threads : mloc[t].err = "") =>
            /\ mPower[mCalls[q].ch] = mCalls[q].arg
            /\ mWire[Latest(SpeedBytesOf(mCalls[q].ch))].id = q

\* --------------------------------------------------------------------- C19

\* C19: a thread that is past command's assertion holds the lock itself,
\* so that every byte written to the Ruggeduino is written by the holder
\* of the lock; a call of command by a thread that has not taken the lock
\* ends in AssertionError and writes nothing, whoever else holds the lock.
C19_AssertionGuards ==
    /\ \A t \in Threads :
          rpc[t] \in {"cmd_write", "cmd_read"} => rLock = t
    /\ \A i \in 1 .. Len(rWire) : rWire[i].k = "w" => rWire[i].held
    /\ \A t \in Threads :
          rloc[t].op = "command" =>
              /\ WritesOf(rWire, rloc[t].id) = {}
              /\ rpc[t] = "idle" => rloc[t].err = "AssertionError"

\* --------------------------------------------------------------------- C20

\* C20: when Motor's construction has failed, with IncorrectFirmware or
\* with FirmwareReadFail, the serial port it opened is closed.
C20_FailedClosesPort ==
    (mPhase = "failed"
        /\ mloc[1].err \in {"IncorrectFirmware", "FirmwareReadFail"}) =>
        ~mOpen

====
